---- MODULE Spec2Model ----
(***************************************************************************)
(* Model of the DevWeb project generator (src/index.js): Validator,        *)
(* FileSystemManager, PackageManager and ProjectGenerator.generate, with   *)
(* the file system, the npm subprocess and the timeout timer as the        *)
(* environment.                                                            *)
(*                                                                         *)
(* A path is the sequence of its segments ("/a/b" is <<"", "a", "b">>, as  *)
(* split on the separator gives it); the file system is the set of paths   *)
(* that are directories and a function from the paths that are regular     *)
(* files to their content.                                                 *)
(***************************************************************************)
EXTENDS Integers, Sequences, FiniteSets, TLC

\* ------------------------------------------------------------------ bounds
MaxRollbackFaults == 1   \* deletions the OS refuses during one rollback()
MaxForeign == 1          \* files another process adds under the project
MaxOutput == 2           \* data chunks the subprocess emits per call
MaxCalls == 4            \* direct calls of FileSystemManager methods
MaxSegments == 3         \* segments of a path given to sanitizePath
MaxPrompts == 2          \* times Application.run asks for the project name

\* --------------------------------------------------------------- constants
TIMEOUT == 300000

NoError == [kind |-> "none", cause |-> "none", seconds |-> 0, output |-> <<>>]

MkError(kind, cause) ==
    [kind |-> kind, cause |-> cause, seconds |-> 0, output |-> <<>>]

\* ------------------------------------------------------------------- paths
Reverse(s) == [i \in 1..Len(s) |-> s[Len(s) + 1 - i]]

Range(s) == {s[i] : i \in 1..Len(s)}

\* segments whose text contains the substring ".."
DotDotSegments == {"..", "a..b"}

RECURSIVE NormalizeFrom(_, _, _)
NormalizeFrom(segs, i, acc) ==
    IF i > Len(segs) THEN acc
    ELSE LET s == segs[i] IN
         IF s = "." \/ (s = "" /\ i > 1)
         THEN NormalizeFrom(segs, i + 1, acc)
         ELSE IF s = ".."
         THEN IF acc # <<>> /\ acc[Len(acc)] \notin {"..", ""}
              THEN NormalizeFrom(segs, i + 1, SubSeq(acc, 1, Len(acc) - 1))
              ELSE IF acc # <<>> /\ acc[Len(acc)] = ""
              THEN NormalizeFrom(segs, i + 1, acc)
              ELSE NormalizeFrom(segs, i + 1, Append(acc, s))
         ELSE NormalizeFrom(segs, i + 1, Append(acc, s))

\* path.normalize
normalize(p) == NormalizeFrom(p, 1, <<>>)

\* path.join
join(a, b) == normalize(a \o b)

\* path.dirname
dirname(p) == IF Len(p) <= 1 THEN p ELSE SubSeq(p, 1, Len(p) - 1)

\* normalized.includes('..')
includesDotDot(p) == \E i \in 1..Len(p) : p[i] \in DotDotSegments

\* Validator.sanitizePath: the normalized path, or a throw
sanitizePath(userPath) ==
    LET normalized == normalize(userPath) IN
    IF includesDotDot(normalized)
    THEN [ok |-> FALSE, path |-> normalized]
    ELSE [ok |-> TRUE, path |-> normalized]

Prefixes(p) == {SubSeq(p, 1, n) : n \in 1..Len(p)}

\* ------------------------------------------------------------- file system
\* A store state st is a record
\*   dirs, files          the disk
\*   createdFiles, createdDirs   the ledger of FileSystemManager
existsSync(st, p) == p \in st.dirs \/ p \in DOMAIN st.files

\* fs.readdirSync(d): the entries directly under d
readdirSync(st, d) ==
    {q \in st.dirs \cup DOMAIN st.files : Len(q) = Len(d) + 1 /\ dirname(q) = d}

\* fs.mkdirSync(p, {recursive: true}) throws when an ancestor is a regular
\* file or when the OS refuses (fault)
mkdirThrows(st, p, fault) ==
    fault \/ \E q \in Prefixes(p) : q \in DOMAIN st.files

\* the code of the error mkdirSync throws
mkdirError(st, p, fault) == IF fault THEN "EACCES" ELSE "ENOTDIR"

\* faulty variant of mkdirSync: the directory is made without its ancestors
mkdirSyncLeafOnly(st, p) == [st EXCEPT !.dirs = @ \cup {p}]

mkdirSync(st, p) == [st EXCEPT !.dirs = @ \cup Prefixes(p)]

\* fs.writeFileSync(p, content, {flag: 'w'}) throws when the parent is not
\* a directory, when p is a directory, or when the OS refuses (fault)
writeFileThrows(st, p, fault) ==
    fault \/ dirname(p) \notin st.dirs \/ p \in st.dirs

\* faulty variant of writeFileSync: an existing file keeps its content
writeFileSyncKeepsExisting(st, p, content) ==
    IF p \in DOMAIN st.files THEN st
    ELSE [st EXCEPT !.files = (p :> content) @@ @]

writeFileSync(st, p, content) ==
    [st EXCEPT !.files = (p :> content) @@ @]

RemoveFile(files, p) == [q \in DOMAIN files \ {p} |-> files[q]]

\* faulty variant of createDirectory: the path is recorded also when the
\* directory exists
createDirectoryAlwaysRecords(st, dirPath, fault) ==
    LET san == sanitizePath(dirPath) IN
    IF ~san.ok
    THEN [st |-> st, ok |-> FALSE,
          err |-> MkError("DirectoryCreationFailed", "Path traversal detected")]
    ELSE IF ~existsSync(st, san.path)
    THEN IF mkdirThrows(st, san.path, fault)
         THEN [st |-> st, ok |-> FALSE,
               err |-> MkError("DirectoryCreationFailed",
                               mkdirError(st, san.path, fault))]
         ELSE [st |-> [mkdirSync(st, san.path) EXCEPT
                          !.createdDirs = Append(@, san.path)],
               ok |-> TRUE, err |-> NoError]
    ELSE [st |-> [st EXCEPT !.createdDirs = Append(@, san.path)],
          ok |-> TRUE, err |-> NoError]

\* faulty variant of createDirectory: the error thrown does not carry the
\* message of the error caught
createDirectoryDropsCause(st, dirPath, fault) ==
    LET san == sanitizePath(dirPath) IN
    IF ~san.ok
    THEN [st |-> st, ok |-> FALSE,
          err |-> MkError("DirectoryCreationFailed", "")]
    ELSE IF ~existsSync(st, san.path)
    THEN IF mkdirThrows(st, san.path, fault)
         THEN [st |-> st, ok |-> FALSE,
               err |-> MkError("DirectoryCreationFailed", "")]
         ELSE [st |-> [mkdirSync(st, san.path) EXCEPT
                          !.createdDirs = Append(@, san.path)],
               ok |-> TRUE, err |-> NoError]
    ELSE [st |-> st, ok |-> TRUE, err |-> NoError]

\* faulty variant of createDirectory: the path is recorded before the mkdir
createDirectoryRecordsFirst(st, dirPath, fault) ==
    LET san == sanitizePath(dirPath) IN
    IF ~san.ok
    THEN [st |-> st, ok |-> FALSE,
          err |-> MkError("DirectoryCreationFailed", "Path traversal detected")]
    ELSE IF ~existsSync(st, san.path)
    THEN IF mkdirThrows(st, san.path, fault)
         THEN [st |-> [st EXCEPT !.createdDirs = Append(@, san.path)],
               ok |-> FALSE,
               err |-> MkError("DirectoryCreationFailed",
                               mkdirError(st, san.path, fault))]
         ELSE [st |-> [mkdirSync(st, san.path) EXCEPT
                          !.createdDirs = Append(@, san.path)],
               ok |-> TRUE, err |-> NoError]
    ELSE [st |-> st, ok |-> TRUE, err |-> NoError]

\* ------------------------------------------------------- FileSystemManager
\* createDirectory(dirPath): the result is the store state, whether the call
\* returned (ok) and the error it threw otherwise
createDirectory(st, dirPath, fault) ==
    LET san == sanitizePath(dirPath) IN
    IF ~san.ok
    THEN [st |-> st, ok |-> FALSE,
          err |-> MkError("DirectoryCreationFailed", "Path traversal detected")]
    ELSE IF ~existsSync(st, san.path)
    THEN IF mkdirThrows(st, san.path, fault)
         THEN [st |-> st, ok |-> FALSE,
               err |-> MkError("DirectoryCreationFailed",
                               mkdirError(st, san.path, fault))]
         ELSE [st |-> [mkdirSync(st, san.path) EXCEPT
                          !.createdDirs = Append(@, san.path)],
               ok |-> TRUE, err |-> NoError]
    ELSE [st |-> st, ok |-> TRUE, err |-> NoError]

\* faulty variant of writeFile: the path is recorded before the write
writeFileRecordsFirst(st, filePath, content, dirFault, fault) ==
    LET san == sanitizePath(filePath) IN
    IF ~san.ok
    THEN [st |-> st, ok |-> FALSE,
          err |-> MkError("FileWriteFailed", "Path traversal detected")]
    ELSE
    LET dir == dirname(san.path)
        made == IF ~existsSync(st, dir)
                THEN createDirectory(st, dir, dirFault)
                ELSE [st |-> st, ok |-> TRUE, err |-> NoError]
    IN  IF ~made.ok
        THEN [st |-> made.st, ok |-> FALSE,
              err |-> MkError("FileWriteFailed", made.err.kind)]
        ELSE IF writeFileThrows(made.st, san.path, fault)
        THEN [st |-> [made.st EXCEPT !.createdFiles = Append(@, san.path)],
              ok |-> FALSE,
              err |-> MkError("FileWriteFailed", "write")]
        ELSE [st |-> [writeFileSync(made.st, san.path, content) EXCEPT
                         !.createdFiles = Append(@, san.path)],
              ok |-> TRUE, err |-> NoError]

\* writeFile(filePath, content); dirFault and fault are the OS refusing the
\* mkdir of the parent and the write
writeFile(st, filePath, content, dirFault, fault) ==
    LET san == sanitizePath(filePath) IN
    IF ~san.ok
    THEN [st |-> st, ok |-> FALSE,
          err |-> MkError("FileWriteFailed", "Path traversal detected")]
    ELSE
    LET dir == dirname(san.path)
        made == IF ~existsSync(st, dir)
                THEN createDirectory(st, dir, dirFault)
                ELSE [st |-> st, ok |-> TRUE, err |-> NoError]
    IN  IF ~made.ok
        THEN [st |-> made.st, ok |-> FALSE,
              err |-> MkError("FileWriteFailed", made.err.kind)]
        ELSE IF writeFileThrows(made.st, san.path, fault)
        THEN [st |-> made.st, ok |-> FALSE,
              err |-> MkError("FileWriteFailed", "write")]
        ELSE [st |-> [writeFileSync(made.st, san.path, content) EXCEPT
                         !.createdFiles = Append(@, san.path)],
              ok |-> TRUE, err |-> NoError]

\* faulty variant of rollbackFile: unlinkSync is called without the
\* existsSync test, so an absent file is a failure
rollbackFileAbsentFails(acc, file, failSet) ==
    IF ~(file \in acc.dirs \/ file \in DOMAIN acc.files)
           \/ file \in failSet \/ file \in acc.dirs
    THEN [acc EXCEPT !.rollbackErrors = @ + 1,
                     !.visited = Append(@, [kind |-> "file", path |-> file,
                                            outcome |-> "failed"])]
    ELSE [acc EXCEPT !.files = RemoveFile(@, file),
                     !.visited = Append(@, [kind |-> "file", path |-> file,
                                            outcome |-> "deleted"])]

\* faulty variant of rollbackFile: a failed deletion is not counted
rollbackFileUncounted(acc, file, failSet) ==
    IF ~(file \in acc.dirs \/ file \in DOMAIN acc.files)
    THEN [acc EXCEPT !.visited = Append(@, [kind |-> "file", path |-> file,
                                            outcome |-> "absent"])]
    ELSE IF file \in failSet \/ file \in acc.dirs
    THEN [acc EXCEPT !.visited = Append(@, [kind |-> "file", path |-> file,
                                            outcome |-> "failed"])]
    ELSE [acc EXCEPT !.files = RemoveFile(@, file),
                     !.visited = Append(@, [kind |-> "file", path |-> file,
                                            outcome |-> "deleted"])]

\* one iteration of the file sweep of rollback(): the try block around
\* existsSync / unlinkSync
rollbackFile(acc, file, failSet) ==
    IF ~(file \in acc.dirs \/ file \in DOMAIN acc.files)
    THEN [acc EXCEPT !.visited = Append(@, [kind |-> "file", path |-> file,
                                            outcome |-> "absent"])]
    ELSE IF file \in failSet \/ file \in acc.dirs
    THEN [acc EXCEPT !.rollbackErrors = @ + 1,
                     !.visited = Append(@, [kind |-> "file", path |-> file,
                                            outcome |-> "failed"])]
    ELSE [acc EXCEPT !.files = RemoveFile(@, file),
                     !.visited = Append(@, [kind |-> "file", path |-> file,
                                            outcome |-> "deleted"])]

\* faulty variant of rollbackDir: the directory is removed with what it holds
rollbackDirForce(acc, dir, failSet) ==
    IF ~(dir \in acc.dirs \/ dir \in DOMAIN acc.files)
    THEN [acc EXCEPT !.visited = Append(@, [kind |-> "directory", path |-> dir,
                                            outcome |-> "absent"])]
    ELSE IF dir \in DOMAIN acc.files \/ dir \in failSet
    THEN [acc EXCEPT !.rollbackErrors = @ + 1,
                     !.visited = Append(@, [kind |-> "directory", path |-> dir,
                                            outcome |-> "failed"])]
    ELSE LET inside(p) == Len(p) >= Len(dir) /\ SubSeq(p, 1, Len(dir)) = dir
         IN  [acc EXCEPT !.dirs = {d \in @ : ~inside(d)},
                         !.files = [f \in {g \in DOMAIN @ : ~inside(g)} |-> @[f]],
                         !.visited = Append(@, [kind |-> "directory",
                                                path |-> dir,
                                                outcome |-> "deleted"])]

\* one iteration of the directory sweep of rollback(): the try block around
\* existsSync / readdirSync / rmdirSync
rollbackDir(acc, dir, failSet) ==
    IF ~(dir \in acc.dirs \/ dir \in DOMAIN acc.files)
    THEN [acc EXCEPT !.visited = Append(@, [kind |-> "directory", path |-> dir,
                                            outcome |-> "absent"])]
    ELSE IF dir \in DOMAIN acc.files
    THEN [acc EXCEPT !.rollbackErrors = @ + 1,
                     !.visited = Append(@, [kind |-> "directory", path |-> dir,
                                            outcome |-> "failed"])]
    ELSE IF readdirSync(acc, dir) # {}
    THEN [acc EXCEPT !.visited = Append(@, [kind |-> "directory", path |-> dir,
                                            outcome |-> "skipped"])]
    ELSE IF dir \in failSet
    THEN [acc EXCEPT !.rollbackErrors = @ + 1,
                     !.visited = Append(@, [kind |-> "directory", path |-> dir,
                                            outcome |-> "failed"])]
    ELSE [acc EXCEPT !.dirs = @ \ {dir},
                     !.visited = Append(@, [kind |-> "directory", path |-> dir,
                                            outcome |-> "deleted"])]

RECURSIVE sweepFiles(_, _, _, _)
sweepFiles(acc, list, i, failSet) ==
    IF i > Len(list) THEN acc
    ELSE sweepFiles(rollbackFile(acc, list[i], failSet), list, i + 1, failSet)

RECURSIVE sweepDirs(_, _, _, _)
sweepDirs(acc, list, i, failSet) ==
    IF i > Len(list) THEN acc
    ELSE sweepDirs(rollbackDir(acc, list[i], failSet), list, i + 1, failSet)

\* rollback(): Array.prototype.reverse reverses createdFiles and createdDirs
\* in place and the loops run over the reversed arrays; failSet is the set
\* of paths whose unlink / rmdir the OS refuses.  The result carries the
\* store state, the local counter rollbackErrors and the entries visited.
rollback(st, failSet) ==
    LET files == Reverse(st.createdFiles)
        dirs == Reverse(st.createdDirs)
        acc0 == [dirs |-> st.dirs, files |-> st.files,
                 rollbackErrors |-> 0, visited |-> <<>>]
        acc1 == sweepFiles(acc0, files, 1, failSet)
        acc2 == sweepDirs(acc1, dirs, 1, failSet)
    IN  [st |-> [dirs |-> acc2.dirs, files |-> acc2.files,
                 createdFiles |-> files, createdDirs |-> dirs],
         rollbackErrors |-> acc2.rollbackErrors,
         visited |-> acc2.visited]

\* the paths Validator.sanitizePath returns, not throws, in a call of
\* createDirectory(dirPath)
passedByCreateDirectory(dirPath) ==
    IF sanitizePath(dirPath).ok THEN {sanitizePath(dirPath).path} ELSE {}

\* the same for writeFile(filePath): the path, and its parent when writeFile
\* calls createDirectory on it
passedByWriteFile(st, filePath) ==
    LET san == sanitizePath(filePath) IN
    IF ~san.ok THEN {}
    ELSE {san.path} \cup (IF ~existsSync(st, dirname(san.path))
                         THEN passedByCreateDirectory(dirname(san.path))
                         ELSE {})

\* ------------------------------------------------------------ configuration
\* process.cwd()
cwd == <<"", "work">>

ProjectNames == {"demo"}

TemplateModes == {"EJS (Dynamic)", "Plain HTML (Static)"}

Datastores == {"None", "MySQL", "PostgreSQL", "MongoDB"}

\* the configuration objects Application.getProjectConfiguration builds
AllConfigs ==
    [projectName : ProjectNames, useEjs : TemplateModes, useDB : Datastores,
     features : [authentication : BOOLEAN, linter : BOOLEAN],
     port : {"3000"}, initGit : BOOLEAN]

\* number of choices in which a configuration differs from the minimal one
Options(c) ==
    (IF c.useEjs = "EJS (Dynamic)" THEN 1 ELSE 0)
    + (IF c.useDB # "None" THEN 1 ELSE 0)
    + (IF c.features.authentication THEN 1 ELSE 0)
    + (IF c.features.linter THEN 1 ELSE 0)
    + (IF c.initGit THEN 1 ELSE 0)

\* the configurations generate() is run on: the minimal one, those with one
\* option chosen, and those with every option chosen
Configs == {c \in AllConfigs : Options(c) <= 1 \/ Options(c) = 5}

\* path.join(process.cwd(), projectName)
rootDir(cfg) == join(cwd, <<cfg.projectName>>)

\* --------------------------------------------------------- ProjectGenerator
\* the dirs array of createStructure, each joined to rootDir
structureDirs(cfg) ==
    LET dirs == << <<"src", "services">>, <<"src", "routes">>,
                   <<"src", "middleware">>, <<"src", "utils">>,
                   <<"src", "config">>, <<"public", "css">>,
                   <<"public", "js">>, <<"public", "images">>,
                   <<"public", "uploads">>, <<"tests">>, <<"logs">> >>
                \o (IF cfg.useEjs = "EJS (Dynamic)"
                    THEN << <<"views", "components">>, <<"views", "pages">>,
                            <<"views", "layouts">> >>
                    ELSE <<>>)
    IN  [i \in 1..Len(dirs) |-> join(rootDir(cfg), dirs[i])]

\* faulty variant of getFileTemplates: the datastore config file is written
\* whatever the datastore choice
getFileTemplatesAlwaysDatabase(cfg) ==
    LET F(rel, gen) == [path |-> join(rootDir(cfg), rel), content |-> gen]
    IN  << F(<<"src", "app.js">>, "generateAppJs"),
           F(<<"src", "server.js">>, "generateServerJs"),
           F(<<"package.json">>, "generatePackageJson"),
           F(<<".env">>, "generateEnv"),
           F(<<".env.example">>, "generateEnv"),
           F(<<".gitignore">>, "generateGitignore"),
           F(<<"README.md">>, "generateReadme"),
           F(<<"src", "routes", "index.js">>, "generateRoutes") >>
        \o (IF TRUE
            THEN << F(<<"src", "config", "database.js">>,
                      "generateDatabaseConfig") >>
            ELSE <<>>)
        \o (IF cfg.features.authentication
            THEN << F(<<"src", "middleware", "auth.js">>,
                      "generateAuthMiddleware") >>
            ELSE <<>>)
        \o (IF cfg.useEjs = "EJS (Dynamic)"
            THEN << F(<<"views", "pages", "index.ejs">>, "generateIndexView"),
                    F(<<"views", "pages", "404.ejs">>, "generate404View"),
                    F(<<"views", "layouts", "header.ejs">>,
                      "generateHeaderView"),
                    F(<<"views", "layouts", "footer.ejs">>,
                      "generateFooterView") >>
            ELSE << F(<<"public", "index.html">>, "generateIndexHtml") >>)
        \o << F(<<"public", "css", "style.css">>, "generateCSS"),
              F(<<"public", "js", "main.js">>, "generateJS") >>

\* Object.entries(getFileTemplates()): the files in insertion order
getFileTemplates(cfg) ==
    LET F(rel, gen) == [path |-> join(rootDir(cfg), rel), content |-> gen]
    IN  << F(<<"src", "app.js">>, "generateAppJs"),
           F(<<"src", "server.js">>, "generateServerJs"),
           F(<<"package.json">>, "generatePackageJson"),
           F(<<".env">>, "generateEnv"),
           F(<<".env.example">>, "generateEnv"),
           F(<<".gitignore">>, "generateGitignore"),
           F(<<"README.md">>, "generateReadme"),
           F(<<"src", "routes", "index.js">>, "generateRoutes") >>
        \o (IF cfg.useDB # "None"
            THEN << F(<<"src", "config", "database.js">>,
                      "generateDatabaseConfig") >>
            ELSE <<>>)
        \o (IF cfg.features.authentication
            THEN << F(<<"src", "middleware", "auth.js">>,
                      "generateAuthMiddleware") >>
            ELSE <<>>)
        \o (IF cfg.useEjs = "EJS (Dynamic)"
            THEN << F(<<"views", "pages", "index.ejs">>, "generateIndexView"),
                    F(<<"views", "pages", "404.ejs">>, "generate404View"),
                    F(<<"views", "layouts", "header.ejs">>,
                      "generateHeaderView"),
                    F(<<"views", "layouts", "footer.ejs">>,
                      "generateFooterView") >>
            ELSE << F(<<"public", "index.html">>, "generateIndexHtml") >>)
        \o << F(<<"public", "css", "style.css">>, "generateCSS"),
              F(<<"public", "js", "main.js">>, "generateJS") >>

\* faulty variant of installCalls: one call for the runtime packages and one
\* for the development packages
installCallsTwoLists(cfg) ==
    << [dependencies |-> <<"express", "cors", "dotenv", "helmet", "morgan">>
            \o (IF cfg.useEjs = "EJS (Dynamic)" THEN <<"ejs">> ELSE <<>>)
            \o (IF cfg.useDB = "MySQL" THEN <<"mysql2">>
                ELSE IF cfg.useDB = "PostgreSQL" THEN <<"pg">>
                ELSE IF cfg.useDB = "MongoDB" THEN <<"mongodb">>
                ELSE <<>>)
            \o (IF cfg.features.authentication
                THEN <<"jsonwebtoken">> ELSE <<>>),
        isArray |-> TRUE, dev |-> "object"],
       [dependencies |-> <<"nodemon">>
            \o (IF cfg.features.linter THEN <<"eslint prettier">> ELSE <<>>),
        isArray |-> TRUE, dev |-> "true"] >>

\* the calls ProjectGenerator.installDependencies makes, in order: the
\* dependencies argument (an array, or one string held as a one-element
\* list with isArray FALSE) and the value passed as dev
installCalls(cfg) ==
    LET One(pkg, dev) ==
            [dependencies |-> <<pkg>>, isArray |-> FALSE, dev |-> dev]
    IN  << [dependencies |-> <<"express", "cors", "dotenv", "helmet", "morgan">>,
            isArray |-> TRUE, dev |-> "object"] >>
        \o (IF cfg.useEjs = "EJS (Dynamic)"
            THEN << One("ejs", "undefined") >> ELSE <<>>)
        \o (IF cfg.useDB = "MySQL" THEN << One("mysql2", "undefined") >>
            ELSE IF cfg.useDB = "PostgreSQL" THEN << One("pg", "undefined") >>
            ELSE IF cfg.useDB = "MongoDB" THEN << One("mongodb", "undefined") >>
            ELSE <<>>)
        \o (IF cfg.features.authentication
            THEN << One("jsonwebtoken", "undefined") >> ELSE <<>>)
        \o << One("nodemon", "true") >>
        \o (IF cfg.features.linter
            THEN << One("eslint prettier", "true") >> ELSE <<>>)

\* ----------------------------------------------------------- PackageManager
\* dev ? '--save-dev' : ''   (dev defaults to false; an object is truthy)
devFlag(dev) == IF dev \in {"true", "object"} THEN "--save-dev" ELSE ""

\* Array.isArray(dependencies) ? dependencies : [dependencies]
packagesOf(call) ==
    IF call.isArray THEN call.dependencies ELSE <<call.dependencies[1]>>

\* ['install', devFlag, ...packages].filter(Boolean)
spawnArgs(call) ==
    (IF devFlag(call.dev) = "" THEN <<"install">>
     ELSE <<"install", devFlag(call.dev)>>) \o packagesOf(call)

\* new Error(`Installation timeout after ${CONFIG.TIMEOUT / 1000} seconds`)
timeoutError ==
    [kind |-> "InstallationTimeout", cause |-> "timer",
     seconds |-> TIMEOUT \div 1000, output |-> <<>>]

\* faulty variant of installFailedError: stdout || stderr
installFailedErrorStdoutFirst(out, err) ==
    [kind |-> "PackageInstallationFailed", cause |-> "exit",
     seconds |-> 0, output |-> IF out # <<>> THEN out ELSE err]

\* new Error(`Package installation failed: ${stderr || stdout}`)
installFailedError(out, err) ==
    [kind |-> "PackageInstallationFailed", cause |-> "exit",
     seconds |-> 0, output |-> IF err # <<>> THEN err ELSE out]

\* the error object of the child's 'error' event
spawnError == MkError("SpawnError", "ENOENT")

\* resolve() / reject(e) of the promise of one installDependencies call: a
\* settled promise stays as it is
resolvePromise(p) ==
    IF p.state = "pending" THEN [state |-> "resolved", err |-> NoError] ELSE p

rejectPromise(p, e) ==
    IF p.state = "pending" THEN [state |-> "rejected", err |-> e] ELSE p

\* clearTimeout(timeout)
clearTimeout(t) == IF t = "armed" THEN "cleared" ELSE t

\* -------------------------------------------------------------------- state
VARIABLES
    config,             \* the configuration passed to generate()
    pc,                 \* where generate() is
    trace,              \* the pipeline states generate() has entered, in order
    st,                 \* disk and ledger (dirs, files, createdFiles, createdDirs)
    idx,                \* loop position inside the current stage
    promise,            \* promise of the current installDependencies call
    timeout,            \* its timer: none, armed, cleared, fired
    child,              \* its subprocess: none, running, failing, errored, closed
    stdout,             \* output captured from the subprocess
    stderr,
    installedPackages,  \* PackageManager.installedPackages
    spawned,            \* every spawn('npm', args, {cwd}) made so far
    caught,             \* the error caught by generate()
    result,             \* how generate() ended
    rollbackCalls,      \* number of calls of rollback()
    rollbackErrors,     \* the counter of the last rollback()
    visited,            \* the ledger entries the last rollback() went through
    warnings,           \* messages given to logger.warn
    foreign,            \* files added under the project by another process
    gitInits,           \* number of 'git init' invocations
    gitFailures,        \* how many of them threw
    exitCode,           \* the code of the 'close' event of the current
                        \* subprocess, <<>> before it
    last,               \* the last direct call of a FileSystemManager or
                        \* Validator method: arguments, outcome, state before
    created,            \* the ledger entries of both lists in creation order
    checked,            \* the paths Validator.sanitizePath has returned
    run                 \* Application.run: where it is, the name it was given,
                        \* its calls of generate(), its exit code

vars == <<config, pc, trace, st, idx, promise, timeout, child, stdout, stderr,
          installedPackages, spawned, caught, result, rollbackCalls,
          rollbackErrors, visited, warnings, foreign, gitInits, gitFailures,
          exitCode, last, created, checked, run>>

callVars == <<last, created, checked, run>>

pmVars == <<promise, timeout, child, stdout, stderr, installedPackages,
            spawned, exitCode>>

gitVars == <<gitInits, gitFailures>>

rbVars == <<rollbackCalls, rollbackErrors, visited>>

NoPromise == [state |-> "none", err |-> NoError]

EmptyStore ==
    [dirs |-> {}, files |-> <<>>, createdFiles |-> <<>>, createdDirs |-> <<>>]

\* the entries appended to list since it was before
Appended(before, list) == SubSeq(list, Len(before) + 1, Len(list))

\* no method has been called directly yet
NoCall ==
    [n |-> 0, op |-> "none", path |-> <<>>, content |-> "", fault |-> FALSE,
     ok |-> TRUE, err |-> NoError, out |-> <<>>, before |-> EmptyStore]

\* Application.run has not been started: generate() is called directly
NotRunning ==
    [at |-> "none", name |-> "", prompts |-> 0, generateCalls |-> 0,
     existedAtCall |-> FALSE, code |-> <<>>]

\* the state of the objects Application.constructor builds, in an empty cwd
Constructed ==
    /\ pc = "Idle"
    /\ trace = <<"Idle">>
    /\ st = [dirs |-> Prefixes(cwd), files |-> <<>>,
             createdFiles |-> <<>>, createdDirs |-> <<>>]
    /\ idx = 0
    /\ promise = NoPromise
    /\ timeout = "none"
    /\ child = "none"
    /\ stdout = <<>>
    /\ stderr = <<>>
    /\ installedPackages = <<>>
    /\ spawned = <<>>
    /\ caught = NoError
    /\ result = [state |-> "none", err |-> NoError]
    /\ rollbackCalls = 0
    /\ rollbackErrors = 0
    /\ visited = <<>>
    /\ warnings = <<>>
    /\ foreign = 0
    /\ gitInits = 0
    /\ gitFailures = 0
    /\ exitCode = <<>>
    /\ created = <<>>
    /\ checked = {}
    /\ run = NotRunning

Init ==
    /\ config \in Configs
    /\ Constructed
    /\ last = NoCall

\* pc and trace move together
Enter(state) ==
    /\ pc' = state
    /\ trace' = Append(trace, state)

\* a stage threw: control goes to the catch block of generate()
Throw(e) ==
    /\ caught' = e
    /\ Enter("RollingBack")

\* --------------------------------------------------------------- generate()
\* faulty variant of generate: this.config is given a default port, in place
generateSetsPort ==
    /\ pc = "Idle"
    /\ Enter("CreatingStructure")
    /\ idx' = 1
    /\ config' = [config EXCEPT !.port = "8080"]
    /\ UNCHANGED <<callVars, st, pmVars, caught, result, rbVars, warnings,
                   foreign, gitVars>>

\* generate(config) up to the call of createStructure
generate ==
    /\ pc = "Idle"
    /\ Enter("CreatingStructure")
    /\ idx' = 1
    /\ UNCHANGED <<config, callVars, st, pmVars, caught, result, rbVars, warnings,
                   foreign, gitVars>>

\* one iteration of the loop of createStructure; after the last one
\* generate() goes on to generateFiles
createStructure ==
    /\ pc = "CreatingStructure"
    /\ \E fault \in BOOLEAN :
         \E dirs \in {structureDirs(config)} :
         \E r \in {createDirectory(st, dirs[idx], fault)} :
             /\ st' = r.st
             /\ created' = created \o Appended(st.createdDirs, r.st.createdDirs)
             /\ checked' = checked \cup passedByCreateDirectory(dirs[idx])
             /\ IF ~r.ok
                THEN Throw(r.err) /\ UNCHANGED idx
                ELSE IF idx < Len(dirs)
                THEN idx' = idx + 1 /\ UNCHANGED <<pc, trace, caught>>
                ELSE idx' = 1 /\ Enter("WritingFiles") /\ UNCHANGED caught
    /\ UNCHANGED <<config, last, run, pmVars, result, rbVars, warnings, foreign,
                   gitVars>>

\* one iteration of the loop of generateFiles; after the last one generate()
\* goes on to installDependencies
generateFiles ==
    /\ pc = "WritingFiles"
    /\ \E dirFault \in BOOLEAN, fault \in BOOLEAN :
         \E files \in {getFileTemplates(config)} :
         \E r \in {writeFile(st, files[idx].path, files[idx].content,
                            dirFault, fault)} :
             /\ st' = r.st
             /\ created' = created
                    \o Appended(st.createdDirs, r.st.createdDirs)
                    \o Appended(st.createdFiles, r.st.createdFiles)
             /\ checked' = checked \cup passedByWriteFile(st, files[idx].path)
             /\ IF ~r.ok
                THEN Throw(r.err) /\ UNCHANGED idx
                ELSE IF idx < Len(files)
                THEN idx' = idx + 1 /\ UNCHANGED <<pc, trace, caught>>
                ELSE idx' = 1 /\ Enter("InstallingDependencies")
                     /\ UNCHANGED caught
    /\ UNCHANGED <<config, last, run, pmVars, result, rbVars, warnings, foreign,
                   gitVars>>

\* faulty variant of installDependencies: the next call is made although the
\* previous one rejected
installDependenciesAfterFailure ==
    /\ pc = "InstallingDependencies"
    /\ promise.state \in {"none", "resolved", "rejected"}
    /\ idx <= Len(installCalls(config))
    /\ \E spawnOk \in BOOLEAN :
         child' = IF spawnOk THEN "running" ELSE "failing"
    /\ promise' = [state |-> "pending", err |-> NoError]
    /\ timeout' = "armed"
    /\ stdout' = <<>>
    /\ stderr' = <<>>
    /\ exitCode' = <<>>
    /\ spawned' = Append(spawned, [command |-> "npm",
                                   args |-> spawnArgs(installCalls(config)[idx]),
                                   cwd |-> rootDir(config)])
    /\ idx' = idx + 1
    /\ UNCHANGED <<config, callVars, pc, trace, st, installedPackages, caught, result,
                   rbVars, warnings, foreign, gitVars>>

\* PackageManager.installDependencies(projectDir, dependencies, dev) up to
\* the return of the promise: the timer is armed and npm is spawned.  It is
\* called by ProjectGenerator.installDependencies at its start and each time
\* the previous call resolved; spawnOk is whether the OS starts the process.
installDependencies ==
    /\ pc = "InstallingDependencies"
    /\ promise.state \in {"none", "resolved"}
    /\ idx <= Len(installCalls(config))
    /\ \E spawnOk \in BOOLEAN :
         child' = IF spawnOk THEN "running" ELSE "failing"
    /\ promise' = [state |-> "pending", err |-> NoError]
    /\ timeout' = "armed"
    /\ stdout' = <<>>
    /\ stderr' = <<>>
    /\ exitCode' = <<>>
    /\ spawned' = Append(spawned, [command |-> "npm",
                                   args |-> spawnArgs(installCalls(config)[idx]),
                                   cwd |-> rootDir(config)])
    /\ idx' = idx + 1
    /\ UNCHANGED <<config, callVars, pc, trace, st, installedPackages, caught, result,
                   rbVars, warnings, foreign, gitVars>>

\* ProjectGenerator.installDependencies returns: every call resolved
installReturns ==
    /\ pc = "InstallingDependencies"
    /\ promise.state = "resolved"
    /\ idx > Len(installCalls(config))
    /\ Enter("RunningPostHooks")
    /\ UNCHANGED <<config, callVars, st, idx, pmVars, caught, result, rbVars, warnings,
                   foreign, gitVars>>

\* faulty variant of installThrows: the rejection is swallowed and generate() goes on
installThrowsSwallowed ==
    /\ pc = "InstallingDependencies"
    /\ promise.state = "rejected"
    /\ Enter("RunningPostHooks")
    /\ UNCHANGED <<config, callVars, st, idx, pmVars, caught, result, rbVars, warnings,
                   foreign, gitVars>>

\* an awaited install call rejected: installDependencies throws
installThrows ==
    /\ pc = "InstallingDependencies"
    /\ promise.state = "rejected"
    /\ Throw(promise.err)
    /\ UNCHANGED <<config, callVars, st, idx, pmVars, result, rbVars, warnings,
                   foreign, gitVars>>

\* execSync('git init', {cwd: projectDir})
gitInit(s, dir) == [s EXCEPT !.dirs = @ \cup {join(dir, <<".git">>)}]

\* faulty variant of postGeneration: no try/catch around execSync
postGenerationFatal ==
    /\ pc = "RunningPostHooks"
    /\ IF config.initGit
       THEN /\ gitInits' = gitInits + 1
            /\ \E gitOk \in BOOLEAN :
                 IF gitOk /\ rootDir(config) \in st.dirs
                 THEN /\ st' = gitInit(st, rootDir(config))
                      /\ Enter("Committed")
                      /\ result' = [state |-> "returned", err |-> NoError]
                      /\ UNCHANGED <<gitFailures, caught>>
                 ELSE /\ gitFailures' = gitFailures + 1
                      /\ Throw(MkError("GitInitFailed", "execSync"))
                      /\ UNCHANGED <<st, result>>
       ELSE /\ Enter("Committed")
            /\ result' = [state |-> "returned", err |-> NoError]
            /\ UNCHANGED <<st, gitVars, caught>>
    /\ UNCHANGED <<config, callVars, idx, pmVars, rbVars, foreign, warnings>>

\* faulty variant of postGeneration: git init is run whatever config.initGit is
postGenerationUngated ==
    /\ pc = "RunningPostHooks"
    /\ IF TRUE
       THEN /\ gitInits' = gitInits + 1
            /\ \E gitOk \in BOOLEAN :
                 IF gitOk /\ rootDir(config) \in st.dirs
                 THEN /\ st' = gitInit(st, rootDir(config))
                      /\ UNCHANGED <<warnings, gitFailures>>
                 ELSE /\ warnings' = Append(warnings,
                              "Could not initialize git repository")
                      /\ gitFailures' = gitFailures + 1
                      /\ UNCHANGED st
       ELSE UNCHANGED <<st, warnings, gitVars>>
    /\ Enter("Committed")
    /\ result' = [state |-> "returned", err |-> NoError]
    /\ UNCHANGED <<config, callVars, idx, pmVars, caught, rbVars, foreign>>

\* postGeneration() and the return of generate()
postGeneration ==
    /\ pc = "RunningPostHooks"
    /\ IF config.initGit
       THEN /\ gitInits' = gitInits + 1
            /\ \E gitOk \in BOOLEAN :
                 IF gitOk /\ rootDir(config) \in st.dirs
                 THEN /\ st' = gitInit(st, rootDir(config))
                      /\ UNCHANGED <<warnings, gitFailures>>
                 ELSE /\ warnings' = Append(warnings,
                              "Could not initialize git repository")
                      /\ gitFailures' = gitFailures + 1
                      /\ UNCHANGED st
       ELSE UNCHANGED <<st, warnings, gitVars>>
    /\ Enter("Committed")
    /\ result' = [state |-> "returned", err |-> NoError]
    /\ UNCHANGED <<config, callVars, idx, pmVars, caught, rbVars, foreign>>

\* the subsets of S with at most n elements
RECURSIVE UpTo(_, _)
UpTo(S, n) ==
    IF n = 0 THEN {{}}
    ELSE LET smaller == UpTo(S, n - 1)
         IN  smaller \cup {T \cup {x} : T \in smaller, x \in S}

\* the ledger entries whose deletion the OS may refuse: the oldest and the
\* newest entry of each list
FaultCandidates(s) ==
    {s.createdFiles[i] : i \in {1, Len(s.createdFiles)} \cap DOMAIN s.createdFiles}
        \cup {s.createdDirs[i] : i \in {1, Len(s.createdDirs)} \cap DOMAIN s.createdDirs}

\* faulty variant of catchBlock: an error met during rollback is thrown instead of
\* the error that was caught
catchBlockThrowsRollbackError ==
    /\ pc = "RollingBack"
    /\ \E failSet \in UpTo(FaultCandidates(st), MaxRollbackFaults) :
         \E r \in {rollback(st, failSet)} :
             /\ st' = r.st
             /\ rollbackErrors' = r.rollbackErrors
             /\ visited' = r.visited
             /\ warnings' = warnings
                    \o <<"Rolling back file system changes...">>
                    \o (IF r.rollbackErrors > 0
                        THEN <<"Rollback completed with errors">> ELSE <<>>)
             /\ result' = [state |-> "threw",
                           err |-> IF r.rollbackErrors > 0
                                   THEN MkError("RollbackFailed", "unlink")
                                   ELSE caught]
    /\ rollbackCalls' = rollbackCalls + 1
    /\ Enter("Failed")
    /\ UNCHANGED <<config, callVars, idx, pmVars, caught, foreign, gitVars>>

\* the catch block of generate(): rollback(), then throw error
catchBlock ==
    /\ pc = "RollingBack"
    /\ \E failSet \in UpTo(FaultCandidates(st), MaxRollbackFaults) :
         \E r \in {rollback(st, failSet)} :
             /\ st' = r.st
             /\ rollbackErrors' = r.rollbackErrors
             /\ visited' = r.visited
             /\ warnings' = warnings
                    \o <<"Rolling back file system changes...">>
                    \o (IF r.rollbackErrors > 0
                        THEN <<"Rollback completed with errors">> ELSE <<>>)
    /\ rollbackCalls' = rollbackCalls + 1
    /\ Enter("Failed")
    /\ result' = [state |-> "threw", err |-> caught]
    /\ UNCHANGED <<config, callVars, idx, pmVars, caught, foreign, gitVars>>

\* ------------------------------------------------- subprocess and its events
\* child.stdout.on('data')
onStdout ==
    /\ child = "running"
    /\ Len(stdout) + Len(stderr) < MaxOutput
    /\ stdout' = Append(stdout, "out")
    /\ UNCHANGED <<config, callVars, pc, trace, st, idx, promise, timeout, child, stderr,
                   installedPackages, spawned, caught, result, rbVars,
                   warnings, foreign, gitVars, exitCode>>

\* child.stderr.on('data')
onStderr ==
    /\ child = "running"
    /\ Len(stdout) + Len(stderr) < MaxOutput
    /\ stderr' = Append(stderr, "err")
    /\ UNCHANGED <<config, callVars, pc, trace, st, idx, promise, timeout, child, stdout,
                   installedPackages, spawned, caught, result, rbVars,
                   warnings, foreign, gitVars, exitCode>>

\* faulty variant of onClose: after a non-zero exit code npm is spawned again
onCloseRetries ==
    /\ child \in {"running", "errored"}
    /\ \E code \in (IF child = "running" THEN {0, 1} ELSE {-2}) :
         /\ exitCode' = <<code>>
         /\ IF code = 0
            THEN /\ installedPackages' = installedPackages
                        \o packagesOf(installCalls(config)[idx - 1])
                 /\ promise' = resolvePromise(promise)
                 /\ timeout' = clearTimeout(timeout)
                 /\ child' = "closed"
                 /\ UNCHANGED spawned
            ELSE /\ spawned' = Append(spawned, spawned[Len(spawned)])
                 /\ child' = "running"
                 /\ UNCHANGED <<installedPackages, promise, timeout>>
    /\ stdout' = <<>>
    /\ stderr' = <<>>
    /\ UNCHANGED <<config, callVars, pc, trace, st, idx, caught,
                   result, rbVars, warnings, foreign, gitVars>>

\* child.on('close', code): a running process closes with 0 or 1, one that
\* failed to start may still close, with a negative code.  No handler runs
\* after it, so the captured output is released.
onClose ==
    /\ child \in {"running", "errored"}
    /\ \E code \in (IF child = "running" THEN {0, 1} ELSE {-2}) :
         /\ exitCode' = <<code>>
         /\ timeout' = clearTimeout(timeout)
         /\ IF code = 0
            THEN /\ installedPackages' = installedPackages
                        \o packagesOf(installCalls(config)[idx - 1])
                 /\ promise' = resolvePromise(promise)
            ELSE /\ promise' = rejectPromise(promise,
                                             installFailedError(stdout, stderr))
                 /\ UNCHANGED installedPackages
    /\ child' = "closed"
    /\ stdout' = <<>>
    /\ stderr' = <<>>
    /\ UNCHANGED <<config, callVars, pc, trace, st, idx, spawned, caught,
                   result, rbVars, warnings, foreign, gitVars>>

\* faulty variant of onError: the handler does not reject
onErrorNoReject ==
    /\ child = "failing"
    /\ timeout' = clearTimeout(timeout)
    /\ child' = "errored"
    /\ UNCHANGED <<config, callVars, pc, trace, st, idx, promise, stdout, stderr,
                   installedPackages, spawned, caught, result, rbVars,
                   warnings, foreign, gitVars, exitCode>>

\* child.on('error', error): the process could not be started
onError ==
    /\ child = "failing"
    /\ timeout' = clearTimeout(timeout)
    /\ promise' = rejectPromise(promise, spawnError)
    /\ child' = "errored"
    /\ UNCHANGED <<config, callVars, pc, trace, st, idx, stdout, stderr,
                   installedPackages, spawned, caught, result, rbVars,
                   warnings, foreign, gitVars, exitCode>>

\* faulty variant of onTimeout: the timer is only honoured once the child closed
onTimeoutWaitsForChild ==
    /\ timeout = "armed"
    /\ child = "closed"
    /\ timeout' = "fired"
    /\ promise' = rejectPromise(promise, timeoutError)
    /\ UNCHANGED <<config, callVars, pc, trace, st, idx, child, stdout, stderr,
                   installedPackages, spawned, caught, result, rbVars,
                   warnings, foreign, gitVars, exitCode>>

\* faulty variant of onTimeout: the callback does not reject
onTimeoutNoReject ==
    /\ timeout = "armed"
    /\ child # "failing"
    /\ timeout' = "fired"
    /\ UNCHANGED <<config, callVars, pc, trace, st, idx, promise, child, stdout, stderr,
                   installedPackages, spawned, caught, result, rbVars,
                   warnings, foreign, gitVars, exitCode>>

\* the setTimeout callback.  The 'error' event of a process that could not
\* be started is emitted on the next tick, before any timer can run.
onTimeout ==
    /\ timeout = "armed"
    /\ child # "failing"
    /\ timeout' = "fired"
    /\ promise' = rejectPromise(promise, timeoutError)
    /\ UNCHANGED <<config, callVars, pc, trace, st, idx, child, stdout, stderr,
                   installedPackages, spawned, caught, result, rbVars,
                   warnings, foreign, gitVars, exitCode>>

\* the running npm process writes into its working directory
npmWrites ==
    /\ child = "running"
    /\ rootDir(config) \in st.dirs
    /\ join(rootDir(config), <<"node_modules">>) \notin st.dirs
    /\ st' = [st EXCEPT !.dirs = @ \cup {join(rootDir(config), <<"node_modules">>)}]
    /\ UNCHANGED <<config, callVars, pc, trace, idx, pmVars, caught, result, rbVars,
                   warnings, foreign, gitVars>>

\* ------------------------------------------------------------ other processes
ForeignPaths ==
    {join(rootDir(config), <<"src", "services", "notes.txt">>),
     join(rootDir(config), <<"notes.txt">>)}

\* another process adds a file under the project while generate() runs
foreignAdd ==
    /\ pc \in {"CreatingStructure", "WritingFiles", "InstallingDependencies",
               "RunningPostHooks", "RollingBack"}
    /\ foreign < MaxForeign
    /\ \E p \in ForeignPaths :
         /\ dirname(p) \in st.dirs
         /\ ~existsSync(st, p)
         /\ st' = [st EXCEPT !.files = (p :> "foreign") @@ @]
    /\ foreign' = foreign + 1
    /\ UNCHANGED <<config, callVars, pc, trace, idx, pmVars, caught, result, rbVars,
                   warnings, gitVars>>

Next ==
    \/ generate
    \/ createStructure
    \/ generateFiles
    \/ installDependencies
    \/ installReturns
    \/ installThrows
    \/ postGeneration
    \/ catchBlock
    \/ onStdout
    \/ onStderr
    \/ onClose
    \/ onError
    \/ onTimeout
    \/ npmWrites
    \/ foreignAdd

Spec == Init /\ [][Next]_vars

\* The catch block of generate() seen on the control state alone.  It is
\* synchronous: catchBlock is enabled in every state with pc = "RollingBack"
\* (the empty fault set is always a choice) and it is the only action that
\* moves pc from RollingBack to Failed.
catchBlockCompletes == pc = "RollingBack" /\ pc' = "Failed"

\* The same program under the scheduling of the event loop: an armed timer
\* whose delay elapsed is run, the 'error' event of a failed spawn is
\* emitted, and generate() goes on after each await once its promise
\* settled.  Nothing is assumed about the subprocess: it need never close.
SpecFair ==
    /\ Spec
    /\ WF_vars(onTimeout)
    /\ WF_vars(onError)
    /\ WF_vars(installDependencies)
    /\ WF_vars(installReturns)
    /\ WF_vars(installThrows)
    /\ WF_vars(postGeneration)
    /\ WF_pc(catchBlockCompletes)

\* ------------------------------------------- FileSystemManager called directly
\* what the direct calls leave alone
genVars == <<config, pc, trace, idx, pmVars, caught, result, warnings, gitVars, run>>

MinimalConfig == CHOOSE c \in Configs : Options(c) = 0

DemoDir == rootDir(MinimalConfig)

\* the paths given to createDirectory; the last one is rejected by sanitizePath
DirArgs ==
    {DemoDir, DemoDir \o <<"sub">>, DemoDir \o <<"a..b">>}

\* the paths given to writeFile; the last one is rejected by sanitizePath
FileArgs ==
    {DemoDir \o <<"a.txt">>, DemoDir \o <<"sub", "b.txt">>,
     DemoDir \o <<"a..b", "c.txt">>}

Contents == {"v1", "v2"}

InitStore ==
    /\ config = MinimalConfig
    /\ Constructed
    /\ last = NoCall

\* a call of createDirectory(p); fault is the OS refusing the mkdir
callCreateDirectory ==
    /\ last.n < MaxCalls
    /\ \E p \in DirArgs, fault \in BOOLEAN :
         \E r \in {createDirectory(st, p, fault)} :
             /\ st' = r.st
             /\ last' = [n |-> last.n + 1, op |-> "createDirectory",
                         path |-> p, content |-> "", fault |-> fault,
                         ok |-> r.ok, err |-> r.err,
                         out |-> sanitizePath(p).path, before |-> st]
             /\ created' = created \o Appended(st.createdDirs, r.st.createdDirs)
             /\ checked' = checked \cup passedByCreateDirectory(p)
    /\ UNCHANGED <<genVars, rbVars, foreign>>

\* a call of writeFile(p, content); dirFault and fault are the OS refusing
\* the mkdir of the parent, when there is one to make, and the write
callWriteFile ==
    /\ last.n < MaxCalls
    /\ \E p \in FileArgs, content \in Contents, fault \in BOOLEAN :
       \E dirFault \in IF passedByWriteFile(st, p) = {sanitizePath(p).path}
                       THEN {FALSE} ELSE BOOLEAN :
         \E r \in {writeFile(st, p, content, dirFault, fault)} :
             /\ st' = r.st
             /\ last' = [n |-> last.n + 1, op |-> "writeFile",
                         path |-> p, content |-> content, fault |-> fault,
                         ok |-> r.ok, err |-> r.err,
                         out |-> sanitizePath(p).path, before |-> st]
             /\ created' = created
                    \o Appended(st.createdDirs, r.st.createdDirs)
                    \o Appended(st.createdFiles, r.st.createdFiles)
             /\ checked' = checked \cup passedByWriteFile(st, p)
    /\ UNCHANGED <<genVars, rbVars, foreign>>

\* a call of rollback(); failSet is the deletions the OS refuses
callRollback ==
    /\ last.n < MaxCalls
    /\ \E failSet \in UpTo(Range(st.createdFiles) \cup Range(st.createdDirs),
                           MaxRollbackFaults) :
         \E r \in {rollback(st, failSet)} :
             /\ st' = r.st
             /\ rollbackErrors' = r.rollbackErrors
             /\ visited' = r.visited
    /\ rollbackCalls' = rollbackCalls + 1
    /\ last' = [n |-> last.n + 1, op |-> "rollback", path |-> <<>>,
                content |-> "", fault |-> FALSE, ok |-> TRUE, err |-> NoError,
                out |-> <<>>, before |-> st]
    /\ UNCHANGED <<genVars, foreign, created, checked>>

\* what another process may put under the project: a file in a directory,
\* and a regular file where a directory is expected
OtherPaths == {DemoDir \o <<"sub", "notes.txt">>, DemoDir \o <<"sub">>}

\* another process adds a file
otherAdds ==
    /\ foreign < MaxForeign
    /\ \E p \in OtherPaths :
         /\ dirname(p) \in st.dirs
         /\ ~existsSync(st, p)
         /\ st' = [st EXCEPT !.files = (p :> "foreign") @@ @]
    /\ foreign' = foreign + 1
    /\ last' = [last EXCEPT !.op = "other"]
    /\ UNCHANGED <<genVars, rbVars, created, checked>>

\* another process deletes a file the store wrote
otherRemoves ==
    /\ foreign < MaxForeign
    /\ \E p \in DOMAIN st.files \cap Range(st.createdFiles) :
         st' = [st EXCEPT !.files = RemoveFile(@, p)]
    /\ foreign' = foreign + 1
    /\ last' = [last EXCEPT !.op = "other"]
    /\ UNCHANGED <<genVars, rbVars, created, checked>>

NextStore ==
    \/ callCreateDirectory
    \/ callWriteFile
    \/ callRollback
    \/ otherAdds
    \/ otherRemoves

SpecStore == InitStore /\ [][NextStore]_vars

\* --------------------------------------------------- Validator called directly
Segments == {"", ".", "..", "sub", "dir", "etc", "a..b"}

RECURSIVE SeqsUpTo(_, _)
SeqsUpTo(S, n) ==
    IF n = 0 THEN {<<>>}
    ELSE LET shorter == SeqsUpTo(S, n - 1)
         IN  shorter \cup {Append(q, x) : q \in shorter, x \in S}

\* the paths given to sanitizePath
PathInputs == SeqsUpTo(Segments, MaxSegments) \ {<<>>}

InitPath ==
    /\ config = MinimalConfig
    /\ Constructed
    /\ \E p \in PathInputs : last = [NoCall EXCEPT !.op = "input", !.path = p]

\* a call of Validator.sanitizePath(last.path)
callSanitizePath ==
    /\ last.op = "input"
    /\ \E r \in {sanitizePath(last.path)} :
         last' = [last EXCEPT !.n = 1, !.op = "sanitizePath",
                              !.ok = r.ok, !.out = r.path,
                              !.err = IF r.ok THEN NoError
                                      ELSE MkError("Error",
                                                   "Path traversal detected")]
    /\ checked' = checked \cup passedByCreateDirectory(last.path)
    /\ UNCHANGED <<genVars, rbVars, st, foreign, created>>

NextPath == callSanitizePath

SpecPath == InitPath /\ [][NextPath]_vars

\* ------------------------------------------------------------ Application.run
\* CONFIG.MAX_PROJECT_NAME_LENGTH
MAX_PROJECT_NAME_LENGTH == 50

\* the answers typed at the project name prompt
NameInputs == {"demo", "site", "Src", "9lives", "my app", ""}

\* the characters of an answer
chars(s) ==
    CASE s = "demo" -> <<"d", "e", "m", "o">>
      [] s = "site" -> <<"s", "i", "t", "e">>
      [] s = "Src" -> <<"S", "r", "c">>
      [] s = "src" -> <<"s", "r", "c">>
      [] s = "9lives" -> <<"9", "l", "i", "v", "e", "s">>
      [] s = "my app" -> <<"m", "y", " ", "a", "p", "p">>
      [] s = "yes" -> <<"y", "e", "s">>
      [] s = "YES" -> <<"Y", "E", "S">>
      [] s = "y" -> <<"y">>
      [] s = "no" -> <<"n", "o">>
      [] s = "n" -> <<"n">>
      [] s = "N" -> <<"N">>
      [] OTHER -> <<>>

\* String.prototype.toLowerCase on the answers
toLowerCase(s) ==
    CASE s = "Src" -> "src"
      [] s = "YES" -> "yes"
      [] s = "N" -> "n"
      [] OTHER -> s

Digits == {"0", "1", "2", "3", "4", "5", "6", "7", "8", "9"}

\* the characters /^[a-zA-Z0-9-_]+$/ admits, among those of the answers
NameCharacters ==
    {"d", "e", "m", "o", "s", "i", "t", "S", "r", "c", "l", "v", "a", "p", "y",
     "-", "_"} \cup Digits

ReservedNames == {"node_modules", "test", "src", "public", "views"}

\* Validator.validateProjectName(name).valid
validateProjectName(name) ==
    LET cs == chars(name) IN
    /\ ~(Len(cs) = 0 \/ \A i \in DOMAIN cs : cs[i] = " ")
    /\ ~(Len(cs) > MAX_PROJECT_NAME_LENGTH)
    /\ Len(cs) > 0 /\ \A i \in DOMAIN cs : cs[i] \in NameCharacters
    /\ ~(Len(cs) > 0 /\ cs[1] \in Digits)
    /\ toLowerCase(name) \notin ReservedNames

\* path.join(process.cwd(), name)
projectPath(name) == join(cwd, <<name>>)

\* fs.rmSync(p, {recursive: true, force: true})
rmSync(s, p) ==
    [s EXCEPT !.dirs = {d \in @ : p \notin Prefixes(d)},
              !.files = [q \in {f \in DOMAIN @ : p \notin Prefixes(f)} |-> @[q]]]

\* what <cwd>/demo may be when the application starts: absent, a directory
\* with a file in it, or a regular file
InitialDisks ==
    LET empty == [EmptyStore EXCEPT !.dirs = Prefixes(cwd)] IN
    {empty,
     [empty EXCEPT !.dirs = @ \cup {projectPath("demo")},
                   !.files = (join(projectPath("demo"), <<"old.txt">>) :> "old")],
     [empty EXCEPT !.files = (projectPath("demo") :> "old")]}

\* the application has been constructed and run() not yet called
InitRun ==
    /\ config = MinimalConfig
    /\ pc = "Idle"
    /\ trace = <<"Idle">>
    /\ st \in InitialDisks
    /\ idx = 0
    /\ promise = NoPromise
    /\ timeout = "none"
    /\ child = "none"
    /\ stdout = <<>>
    /\ stderr = <<>>
    /\ installedPackages = <<>>
    /\ spawned = <<>>
    /\ caught = NoError
    /\ result = [state |-> "none", err |-> NoError]
    /\ rollbackCalls = 0
    /\ rollbackErrors = 0
    /\ visited = <<>>
    /\ warnings = <<>>
    /\ foreign = 0
    /\ gitInits = 0
    /\ gitFailures = 0
    /\ exitCode = <<>>
    /\ created = <<>>
    /\ checked = {}
    /\ last = NoCall
    /\ run = [NotRunning EXCEPT !.at = "start"]

\* what the steps of run() before generate() leave alone
appVars == <<pc, trace, idx, pmVars, caught, result, rbVars, warnings, gitVars,
             last, created, checked>>

\* run() up to getProjectConfiguration: a failed system check is thrown,
\* caught by run() and ends the process with code 1
checkAll ==
    /\ run.at = "start"
    /\ \E systemOk \in BOOLEAN :
         run' = IF systemOk THEN [run EXCEPT !.at = "name"]
                ELSE [run EXCEPT !.at = "exited", !.code = <<1>>]
    /\ UNCHANGED <<config, st, foreign, appVars>>

\* one answer at the project name prompt: an invalid name is asked again, a
\* name whose path exists leads to the overwrite prompt, any other is taken
askProjectName ==
    /\ run.at = "name"
    /\ run.prompts < MaxPrompts
    /\ \E name \in NameInputs :
         run' = [run EXCEPT !.prompts = @ + 1,
                            !.name = IF validateProjectName(name) THEN name ELSE @,
                            !.at = IF ~validateProjectName(name) THEN "name"
                                   ELSE IF existsSync(st, projectPath(name))
                                   THEN "overwrite" ELSE "options"]
    /\ UNCHANGED <<config, st, foreign, appVars>>

OverwriteAnswers == {"yes", "YES", "y", "no"}

\* the answer at the overwrite prompt: only 'yes' removes the path, and the
\* name is asked again after any other answer or when rmSync throws (fault)
askOverwrite ==
    /\ run.at = "overwrite"
    /\ \E answer \in OverwriteAnswers, fault \in BOOLEAN :
         IF toLowerCase(answer) = "yes" /\ ~fault
         THEN /\ st' = rmSync(st, projectPath(run.name))
              /\ run' = [run EXCEPT !.at = "options"]
         ELSE /\ run' = [run EXCEPT !.at = "name"]
              /\ UNCHANGED st
    /\ UNCHANGED <<config, foreign, appVars>>

\* the configurations the remaining prompts build for the accepted name
RunConfigs(name) ==
    {[c EXCEPT !.projectName = name] : c \in {d \in Configs : Options(d) \in {0, 5}}}

\* the remaining prompts of getProjectConfiguration
askOptions ==
    /\ run.at = "options"
    /\ config' \in RunConfigs(run.name)
    /\ run' = [run EXCEPT !.at = "confirm"]
    /\ UNCHANGED <<st, foreign, appVars>>

ConfirmAnswers == {"", "y", "n", "N"}

\* confirmConfiguration: any answer but 'n' proceeds, 'n' exits with code 0
confirmConfiguration ==
    /\ run.at = "confirm"
    /\ \E answer \in ConfirmAnswers :
         run' = IF toLowerCase(answer) # "n"
                THEN [run EXCEPT !.at = "generate"]
                ELSE [run EXCEPT !.at = "exited", !.code = <<0>>]
    /\ UNCHANGED <<config, st, foreign, appVars>>

\* await this.generator.generate(config): the call
callGenerate ==
    /\ run.at = "generate"
    /\ run' = [run EXCEPT !.at = "generating",
                          !.generateCalls = @ + 1,
                          !.existedAtCall = existsSync(st, rootDir(config))]
    /\ UNCHANGED <<config, st, foreign, appVars>>

\* generate() returned: the success message, cleanup, and the process ends
runReturns ==
    /\ run.at = "generating"
    /\ result.state = "returned"
    /\ run' = [run EXCEPT !.at = "exited", !.code = <<0>>]
    /\ UNCHANGED <<config, st, foreign, appVars>>

\* generate() threw: the catch block of run() exits with code 1
runCatches ==
    /\ run.at = "generating"
    /\ result.state = "threw"
    /\ run' = [run EXCEPT !.at = "exited", !.code = <<1>>]
    /\ UNCHANGED <<config, st, foreign, appVars>>

\* another process creates a directory at the path of a name that can be
\* chosen, while the prompts of run() wait for an answer
otherMakesDirectory ==
    /\ run.at \in {"name", "overwrite", "options", "confirm", "generate"}
    /\ foreign < MaxForeign
    /\ \E name \in {n \in NameInputs : validateProjectName(n)} :
         /\ ~existsSync(st, projectPath(name))
         /\ st' = [st EXCEPT !.dirs = @ \cup {projectPath(name)}]
    /\ foreign' = foreign + 1
    /\ UNCHANGED <<config, run, appVars>>

\* the steps of generate() and of its subprocesses, while run() awaits it
generating == run.at = "generating" /\ result.state = "none" /\ Next

NextRun ==
    \/ checkAll
    \/ askProjectName
    \/ askOverwrite
    \/ askOptions
    \/ confirmConfiguration
    \/ callGenerate
    \/ generating
    \/ runReturns
    \/ runCatches
    \/ otherMakesDirectory

SpecRun == InitRun /\ [][NextRun]_vars

\* ------------------------------------------------------------------- claims
\* the ledger
LedgerPaths == Range(st.createdFiles) \cup Range(st.createdDirs)

\* the ledger entries that are still on disk
Survivors == {p \in LedgerPaths : existsSync(st, p)}

\* what the disk held before generate() was called
PreCallDirs == Prefixes(cwd)

NodeModules == join(rootDir(config), <<"node_modules">>)

IsForeignFile(p) == p \in DOMAIN st.files /\ st.files[p] = "foreign"

\* the stage that threw, once generate() is in its catch block
FailedStage == trace[Len(trace) - (IF pc = "Failed" THEN 2 ELSE 1)]

StageErrorKinds(stage) ==
    CASE stage = "CreatingStructure" -> {"DirectoryCreationFailed"}
      [] stage = "WritingFiles" -> {"FileWriteFailed"}
      [] stage = "InstallingDependencies" ->
            {"InstallationTimeout", "PackageInstallationFailed", "SpawnError"}
      [] OTHER -> {}

HappyPath ==
    <<"Idle", "CreatingStructure", "WritingFiles", "InstallingDependencies",
      "RunningPostHooks", "Committed">>

IsPrefix(a, b) == Len(a) <= Len(b) /\ a = SubSeq(b, 1, Len(a))

StructureOnDisk == \A d \in Range(structureDirs(config)) : d \in st.dirs

ArtifactsOnDisk ==
    \A f \in Range(getFileTemplates(config)) :
        f.path \in DOMAIN st.files /\ st.files[f.path] = f.content

\* C1: after generate() failed in stage 1, 2 or 3, with no file added by
\* another process (nor by npm), the project root does not exist or is empty.
C1_AllOrNothing ==
    (pc = "Failed" /\ foreign = 0 /\ NodeModules \notin st.dirs)
        => (rootDir(config) \notin st.dirs
            \/ readdirSync(st, rootDir(config)) = {})

\* C2: after generate() failed every path that existed before the call still
\* exists and every path that did not exist before the call is absent again,
\* except what other processes added and the ledger entries whose deletion
\* rollback counted as failed.
C2_RestoredToPreCallState ==
    pc = "Failed" =>
        /\ PreCallDirs \subseteq st.dirs
        /\ \A p \in (st.dirs \cup DOMAIN st.files) \ PreCallDirs :
              \/ IsForeignFile(p)
              \/ p = NodeModules
              \/ \E i \in 1..Len(visited) :
                    visited[i].path = p /\ visited[i].outcome = "failed"

\* C3: a failure of createStructure, generateFiles or installDependencies
\* (a timeout included) makes generate() call rollback() exactly once and
\* then throw the error it caught, whatever happened during rollback.
C3_RollbackOnceThenOriginalError ==
    /\ pc = "RollingBack" =>
          /\ rollbackCalls = 0
          /\ result.state = "none"
          /\ caught.kind \in StageErrorKinds(FailedStage)
    /\ pc = "Failed" =>
          /\ rollbackCalls = 1
          /\ result = [state |-> "threw", err |-> caught]
          /\ caught.kind \in StageErrorKinds(FailedStage)
    /\ result.state = "threw" => pc = "Failed"
    /\ promise.state = "rejected" =>
          pc \in {"InstallingDependencies", "RollingBack", "Failed"}

C3_Witness ==
    /\ pc = "Failed"
    /\ caught.kind = "InstallationTimeout"
    /\ rollbackErrors > 0

\* C4: generate() goes Idle, CreatingStructure, WritingFiles,
\* InstallingDependencies, RunningPostHooks, Committed, each stage once and
\* only after the one before it did all its work, or leaves a stage for
\* RollingBack and then Failed; rollback is never called on a run that commits.
C4_StateMachine ==
    /\ pc = trace[Len(trace)]
    /\ \/ IsPrefix(trace, HappyPath)
       \/ \E n \in 2..4 :
             \/ trace = SubSeq(HappyPath, 1, n) \o <<"RollingBack">>
             \/ trace = SubSeq(HappyPath, 1, n) \o <<"RollingBack", "Failed">>
    /\ (IsPrefix(trace, HappyPath) /\ Len(trace) >= 3) => StructureOnDisk
    /\ (IsPrefix(trace, HappyPath) /\ Len(trace) >= 4) => ArtifactsOnDisk
    /\ (IsPrefix(trace, HappyPath) /\ Len(trace) >= 5) =>
          /\ Len(spawned) = Len(installCalls(config))
          /\ promise.state = "resolved"
    /\ pc = "Committed" => (rollbackCalls = 0 /\ result.state = "returned")
    /\ rollbackCalls > 0 => pc = "Failed"

C4_Witness == trace = HappyPath /\ Options(config) = 5

\* C5: when git init fails generate() still returns success, rollback is not
\* called, a warning is recorded and everything stages 1-2 created is still
\* on disk.
C5_GitFailureNonFatal ==
    gitFailures > 0 =>
        /\ pc = "Committed"
        /\ result.state = "returned"
        /\ rollbackCalls = 0
        /\ "Could not initialize git repository" \in Range(warnings)
        /\ StructureOnDisk
        /\ ArtifactsOnDisk
        /\ Survivors = LedgerPaths

C5_Witness == gitFailures > 0 /\ pc = "Committed" /\ LedgerPaths # {}

\* C6: once an install call has been rejected by the timeout (and so once
\* generate() has failed on it) the subprocess of that call is not running.
C6_TimeoutTerminatesSubprocess ==
    (promise.state = "rejected" /\ promise.err.kind = "InstallationTimeout")
        => child # "running"

\* C7: a call whose subprocess neither closed nor errored before the timer
\* ran is rejected with the timeout error, which carries CONFIG.TIMEOUT (in
\* seconds); a pending call always has its timer armed.
C7_TimeoutEnforced ==
    /\ timeout = "fired" =>
          /\ promise.state = "rejected"
          /\ promise.err.kind = "InstallationTimeout"
          /\ promise.err.seconds * 1000 = TIMEOUT
    /\ promise.state = "pending" => timeout = "armed"

C7_Witness == timeout = "fired" /\ child = "running" /\ exitCode = <<>>

\* C8: a 'close' that reaches a pending call resolves it when the code is 0
\* and otherwise rejects it with the install-failed error carrying stderr,
\* or stdout when stderr is empty.
C8_ExitCodeClassification ==
    [][(promise.state = "pending" /\ exitCode = <<>> /\ exitCode' # <<>>) =>
          IF exitCode' = <<0>>
          THEN promise'.state = "resolved"
          ELSE /\ promise'.state = "rejected"
               /\ promise'.err.kind = "PackageInstallationFailed"
               /\ promise'.err.output =
                      (IF stderr # <<>> THEN stderr ELSE stdout)]_vars

C8_Witness ==
    /\ exitCode = <<1>>
    /\ promise.state = "rejected"
    /\ promise.err.kind = "PackageInstallationFailed"
    /\ promise.err.output = <<"err">>

\* C9: when the 'error' event fires the call is rejected with the spawn
\* error, and generate() fails in stage 3 with that error.
C9_SpawnErrorPropagates ==
    (child = "errored" \/ exitCode = <<-2>>) =>
        /\ promise = [state |-> "rejected", err |-> spawnError]
        /\ pc \in {"InstallingDependencies", "RollingBack", "Failed"}
        /\ pc \in {"RollingBack", "Failed"} =>
              (caught = spawnError /\ FailedStage = "InstallingDependencies")
        /\ pc = "Failed" => result = [state |-> "threw", err |-> spawnError]

C9_Witness == pc = "Failed" /\ exitCode = <<-2>> /\ result.err = spawnError

\* C10: after rollback() every ledger entry is gone from disk, or the error
\* count is non-zero and counts exactly the entries that survived.
C10_RollbackGuarantee ==
    rollbackCalls > 0 =>
        \/ Survivors = {}
        \/ (rollbackErrors > 0 /\ rollbackErrors = Cardinality(Survivors))

\* the paths of the entries rollback visited, in the order of the visits
VisitedPaths == [i \in DOMAIN visited |-> visited[i].path]

\* C11: rollback visits every ledger entry, files newest first and then
\* directories newest first, whatever deletions fail before; it completes
\* without throwing, and its error count is the number of entries whose
\* deletion failed.
C11_RollbackSweepsEveryEntry ==
    last.op = "rollback" =>
        /\ last.ok
        /\ VisitedPaths = Reverse(last.before.createdFiles)
                              \o Reverse(last.before.createdDirs)
        /\ rollbackErrors =
               Cardinality({i \in DOMAIN visited : visited[i].outcome = "failed"})

\* a rollback in which a deletion failed and a later entry was still deleted
C11_Witness ==
    /\ last.op = "rollback"
    /\ rollbackErrors = 1
    /\ \E i, j \in DOMAIN visited :
         /\ i < j
         /\ visited[i].outcome = "failed"
         /\ visited[j].outcome = "deleted"

\* C12: rollback never removes a directory that holds an entry: whatever the
\* ledger does not track is on disk after rollback with its content, every
\* directory that still holds an entry is in place, and a ledger directory
\* found non-empty gets no rmdir.
C12_NonEmptyDirectoryKept ==
    last.op = "rollback" =>
        LET b == last.before
            tracked == Range(b.createdFiles) \cup Range(b.createdDirs)
        IN  /\ \A p \in DOMAIN b.files \ tracked :
                  p \in DOMAIN st.files /\ st.files[p] = b.files[p]
            /\ \A d \in b.dirs \ tracked : d \in st.dirs
            /\ \A d \in b.dirs : readdirSync(st, d) # {} => d \in st.dirs
            /\ \A i \in DOMAIN visited :
                  (visited[i].kind = "directory" /\ visited[i].path \in st.dirs
                       /\ readdirSync(st, visited[i].path) # {})
                      => visited[i].outcome = "skipped"

\* a rollback that met a ledger directory holding a file of another process
C12_Witness ==
    /\ last.op = "rollback"
    /\ \E i \in DOMAIN visited, p \in DOMAIN st.files :
         /\ visited[i].kind = "directory"
         /\ visited[i].outcome = "skipped"
         /\ dirname(p) = visited[i].path
         /\ p \notin Range(last.before.createdFiles)
         /\ st.files[p] = "foreign"

\* a was appended to the ledger before b, at every occurrence of both
CreatedBefore(a, b) ==
    /\ a # b
    /\ \E k \in DOMAIN created : created[k] = a
    /\ \E l \in DOMAIN created : created[l] = b
    /\ \A k, l \in DOMAIN created :
         (created[k] = a /\ created[l] = b) => k < l

\* C13: rollback visits the ledger in reverse creation order: of two entries,
\* files or directories, the one created later is visited first.
C13_ReverseCreationOrder ==
    last.op = "rollback" =>
        \A i, j \in DOMAIN visited :
            i < j => ~CreatedBefore(visited[i].path, visited[j].path)

\* C14: during a generation run, until rollback starts, every path in the
\* ledger exists on disk and the ledger lists the entries in the order of
\* their creation: the directories, all created before the first file, and
\* then the files.
C14_LedgerInvariant ==
    rollbackCalls = 0 =>
        /\ \A p \in Range(st.createdDirs) : p \in st.dirs
        /\ \A p \in Range(st.createdFiles) : p \in DOMAIN st.files
        /\ created = st.createdDirs \o st.createdFiles

\* a run that failed in a createDirectory after entries were recorded and
\* has not rolled back yet
C14_Witness ==
    /\ pc = "RollingBack"
    /\ rollbackCalls = 0
    /\ caught.kind = "DirectoryCreationFailed"
    /\ Len(st.createdDirs) > 0

\* C15: the ledger does not outlive one generate(): it is empty when
\* generate() starts and empty again once generate() has returned or has
\* rolled back and thrown.
C15_LedgerLifecycle ==
    pc \in {"Idle", "Committed", "Failed"} =>
        st.createdDirs = <<>> /\ st.createdFiles = <<>>

\* the last call was createDirectory on a path that did not exist, and it
\* returned
CreatedNewDirectory ==
    /\ last.op = "createDirectory"
    /\ last.ok
    /\ ~existsSync(last.before, last.out)

\* C16: createDirectory on a path that does not exist creates the directory
\* and appends exactly one entry; on an existing directory it returns
\* without an error and changes nothing; so a second call on the same path
\* returns too and the two calls together append one entry.
C16_IdempotentCreateDirectory ==
    [][/\ CreatedNewDirectory' =>
              /\ last'.out \in st'.dirs
              /\ st'.createdDirs = Append(last'.before.createdDirs, last'.out)
              /\ st'.createdFiles = last'.before.createdFiles
       /\ (last'.op = "createDirectory" /\ last'.out \in last'.before.dirs) =>
              last'.ok /\ st' = last'.before
       /\ (/\ CreatedNewDirectory
           /\ last'.op = "createDirectory"
           /\ last'.n = last.n + 1
           /\ last'.path = last.path) =>
              /\ last'.ok
              /\ st'.createdDirs = Append(last.before.createdDirs, last.out)
      ]_vars

\* a second createDirectory on the path the store created last
C16_Witness ==
    /\ last.op = "createDirectory"
    /\ last.ok
    /\ last.before.createdDirs # <<>>
    /\ last.before.createdDirs[Len(last.before.createdDirs)] = last.out
    /\ last.out \in last.before.dirs
    /\ st = last.before

\* C17: a writeFile that fails, whether the path is rejected, the parent
\* cannot be created or the OS refuses the write, throws a file-write error
\* and leaves createdFiles and the files on disk as they were; a writeFile
\* that returns has appended its path, once.
C17_FileEntryOnlyOnSuccess ==
    last.op = "writeFile" =>
        IF last.ok
        THEN st.createdFiles = Append(last.before.createdFiles, last.out)
        ELSE /\ last.err.kind = "FileWriteFailed"
             /\ last.err.cause \in {"Path traversal detected",
                                    "DirectoryCreationFailed", "write"}
             /\ st.createdFiles = last.before.createdFiles
             /\ st.files = last.before.files

\* a writeFile that created the parent directory and then failed in the write
C17_Witness ==
    /\ last.op = "writeFile"
    /\ ~last.ok
    /\ last.err.cause = "write"
    /\ Len(st.createdDirs) = Len(last.before.createdDirs) + 1

\* C18: after a writeFile that returned, the parent directory of the path
\* exists, recorded by createDirectory when it was missing before the call,
\* and the file holds exactly the content given, also when a file with
\* another content was there before.
C18_WriteFilePostcondition ==
    (last.op = "writeFile" /\ last.ok) =>
        LET dir == dirname(last.out) IN
        /\ dir \in st.dirs
        /\ last.out \in DOMAIN st.files
        /\ st.files[last.out] = last.content
        /\ st.createdDirs =
               IF existsSync(last.before, dir) THEN last.before.createdDirs
               ELSE Append(last.before.createdDirs, dir)

\* a writeFile that replaced the content of an existing file
C18_Witness ==
    /\ last.op = "writeFile"
    /\ last.ok
    /\ last.out \in DOMAIN last.before.files
    /\ last.before.files[last.out] # last.content

\* C19: a createDirectory whose mkdir the OS refuses throws a
\* directory-creation error that carries the cause the OS gave, and leaves
\* the ledger and the disk as they were.
C19_CreateDirectoryFailure ==
    (last.op = "createDirectory" /\ ~last.ok /\ sanitizePath(last.path).ok) =>
        /\ last.err.kind = "DirectoryCreationFailed"
        /\ last.err.cause = (IF last.fault THEN "EACCES" ELSE "ENOTDIR")
        /\ st = last.before

\* a createDirectory refused by the OS on a store that had recorded entries
C19_Witness ==
    /\ last.op = "createDirectory"
    /\ ~last.ok
    /\ last.fault
    /\ last.err.cause = "EACCES"
    /\ last.before.createdDirs # <<>>
    /\ st.createdDirs = last.before.createdDirs

\* the depth below the root reached by following the segments of a relative
\* path from position i at depth d, or -1 once a ".." has led above the root
RECURSIVE DepthFrom(_, _, _)
DepthFrom(p, i, d) ==
    IF i > Len(p) THEN d
    ELSE IF p[i] \in {"", "."} THEN DepthFrom(p, i + 1, d)
    ELSE IF p[i] = ".." THEN (IF d = 0 THEN 0 - 1 ELSE DepthFrom(p, i + 1, d - 1))
    ELSE DepthFrom(p, i + 1, d + 1)

\* the relative path p names a place inside the root it is resolved against
StaysInside(p) == DepthFrom(p, 1, 0) >= 0

\* C20: of the paths relative to the root, sanitizePath rejects those that
\* lead above the root and accepts those that stay inside it, returning
\* the normalized path, which has no ".." segment.
C20_PathTraversalRejection ==
    (last.op = "sanitizePath" /\ last.path[1] # "") =>
        /\ last.ok <=> StaysInside(last.path)
        /\ last.ok => /\ last.out = normalize(last.path)
                      /\ \A i \in DOMAIN last.out : last.out[i] # ".."

\* C21: every path the store makes a directory at or writes a file to, and
\* every working directory of a subprocess, npm or git, has been returned
\* by Validator.sanitizePath before.
C21_EveryPathChecked ==
    /\ \A p \in Range(st.createdDirs) \cup Range(st.createdFiles) : p \in checked
    /\ \A i \in DOMAIN spawned : spawned[i].cwd \in checked
    /\ gitInits > 0 => rootDir(config) \in checked

\* stage 3 has returned
InstallStageDone == pc \in {"RunningPostHooks", "Committed"}

\* the options of a configuration that add an install call
InstallOptions(c) ==
    (IF c.useEjs = "EJS (Dynamic)" THEN 1 ELSE 0)
    + (IF c.useDB # "None" THEN 1 ELSE 0)
    + (IF c.features.authentication THEN 1 ELSE 0)
    + (IF c.features.linter THEN 1 ELSE 0)

C23_FirstFailureShortCircuits ==
    [][/\ promise.state = "rejected" => spawned' = spawned
       /\ spawned' # spawned =>
              promise.state = (IF spawned = <<>> THEN "none" ELSE "resolved")
       /\ (InstallStageDone' /\ ~InstallStageDone) =>
              /\ promise.state = "resolved"
              /\ Len(spawned) = 2 + InstallOptions(config)
      ]_vars

\* a run in which an install call failed while others were still to make,
\* and generate() has thrown
C23_Witness ==
    /\ pc = "Failed"
    /\ promise.state = "rejected"
    /\ Len(spawned) >= 1
    /\ Len(spawned) < 2 + InstallOptions(config)

RuntimePackages ==
    {"express", "cors", "dotenv", "helmet", "morgan", "ejs", "mysql2", "pg",
     "mongodb", "jsonwebtoken"}

DevelopmentPackages == {"nodemon", "eslint", "prettier"}

\* C24: every invocation is npm install in the project directory, each
\* argument after the verb and the flag is one package, runtime packages
\* are installed without --save-dev and development packages with it.
C24_DevFlagExactlyForDevelopment ==
    \A i \in DOMAIN spawned :
        LET args == spawned[i].args
            packages == Range(args) \ {"install", "--save-dev"}
        IN  /\ spawned[i].command = "npm"
            /\ args[1] = "install"
            /\ spawned[i].cwd = rootDir(config)
            /\ packages \subseteq RuntimePackages \cup DevelopmentPackages
            /\ packages \cap RuntimePackages # {} => "--save-dev" \notin Range(args)
            /\ packages \cap DevelopmentPackages # {} => "--save-dev" \in Range(args)

\* C25: no pipeline state is entered twice in one generate(); once
\* generate() has caught an error it creates nothing and starts no
\* subprocess any more; and a subprocess is spawned only by a new install
\* call, one per call, never when a call settles.
C25_NoAutomaticRetry ==
    [][/\ \A i, j \in DOMAIN trace' : i < j => trace'[i] # trace'[j]
       /\ pc \in {"RollingBack", "Failed"} =>
              /\ spawned' = spawned
              /\ created' = created
              /\ gitInits' = gitInits
       /\ spawned' # spawned =>
              /\ promise.state # "pending"
              /\ promise'.state = "pending"
              /\ idx' = idx + 1
              /\ spawned' = Append(spawned, spawned'[Len(spawned')])
       /\ Len(spawned') <= 2 + InstallOptions(config)
      ]_vars

\* an install call whose subprocess exited with a non-zero code: generate()
\* has thrown and npm was spawned once
C25_Witness ==
    /\ pc = "Failed"
    /\ caught.kind = "PackageInstallationFailed"
    /\ exitCode = <<1>>
    /\ Len(spawned) = 1

DatabaseConfig == join(rootDir(config), <<"src", "config", "database.js">>)

\* the directories of the skeleton and their ancestors below cwd
SkeletonTree ==
    UNION {Prefixes(d) : d \in Range(structureDirs(config))} \ PreCallDirs

C27_ConfigNeverMutated ==
    [][/\ config'.projectName = config.projectName
       /\ config'.useEjs = config.useEjs
       /\ config'.useDB = config.useDB
       /\ config'.features = config.features
       /\ config'.port = config.port
       /\ config'.initGit = config.initGit
       /\ DOMAIN config' = DOMAIN config
      ]_vars

\* generate() has thrown after rollback, for the configuration with every
\* option
C27_Witness ==
    /\ pc = "Failed"
    /\ result.state = "threw"
    /\ Options(config) = 5

GitDir == join(rootDir(config), <<".git">>)

\* C28: git init is run only by postGeneration, in the project root, at
\* most once, and exactly when config.initGit is set: a generate() that has
\* returned has run it once if the flag is set and never if it is not.
C28_GitInitGatedByFlag ==
    /\ gitInits <= 1
    /\ gitInits = 1 => config.initGit /\ pc = "Committed"
    /\ pc = "Committed" => (gitInits = 1 <=> config.initGit)
    /\ GitDir \in st.dirs => gitInits = 1
    /\ gitFailures <= gitInits

\* a generate() that returned with the flag set: git init ran once and made
\* the repository in the project root
C28_Witness ==
    /\ pc = "Committed"
    /\ config.initGit
    /\ gitInits = 1
    /\ GitDir \in st.dirs

\* C29: until rollback starts, the directory entries of the ledger are
\* exactly the directories the run has brought into existence, the project
\* root and every ancestor made by the recursive mkdir included.
C29_EveryCreatedDirectoryRecorded ==
    rollbackCalls = 0 =>
        Range(st.createdDirs) = st.dirs \ (PreCallDirs \cup {NodeModules, GitDir})

\* a step of createStructure in which createDirectory made a directory
MakesSkeletonDirectory ==
    pc = "CreatingStructure" /\ st'.createdDirs # st.createdDirs

\* the directory made by such a step
MadeDirectory == st'.createdDirs[Len(st'.createdDirs)]

\* C30 as stated: when createStructure creates a directory, its parent
\* exists already.
C30_ParentExistsBeforeChild ==
    [][MakesSkeletonDirectory => dirname(MadeDirectory) \in st.dirs]_vars

\* C30 amended: createStructure creates the directories of its list in the
\* order of the list, for both template modes; a call makes the directory
\* together with its missing ancestors, so that a directory never exists
\* before its parent, and nothing else on disk changes.
C30_ListOrderAncestorsWithChild ==
    [][MakesSkeletonDirectory =>
           /\ st'.createdDirs = Append(st.createdDirs, MadeDirectory)
           /\ MadeDirectory = structureDirs(config)[Len(st'.createdDirs)]
           /\ st'.dirs = st.dirs \cup Prefixes(MadeDirectory)
           /\ MadeDirectory \notin st.dirs
           /\ \A d \in st'.dirs : Len(d) > 1 => dirname(d) \in st'.dirs
           /\ st'.files = st.files
      ]_vars

\* the first directory of the list has been made, and with it its parent,
\* which no call asked for
C30_Witness ==
    /\ pc = "CreatingStructure"
    /\ Len(st.createdDirs) = 1
    /\ dirname(st.createdDirs[1]) \in st.dirs \ PreCallDirs
    /\ dirname(st.createdDirs[1]) \notin Range(structureDirs(config))

\* the file entry visited at position i of the last rollback was not on
\* disk when its turn came: it was absent before the call, or an earlier
\* entry of the same path had been deleted in this sweep
AbsentAtVisit(i) ==
    /\ visited[i].kind = "file"
    /\ \/ ~existsSync(last.before, visited[i].path)
       \/ \E j \in 1..(i - 1) :
              visited[j].path = visited[i].path /\ visited[j].outcome = "deleted"

\* C31: in a rollback, a file entry whose file is absent, because another
\* process deleted it or because the path is in the ledger twice, is passed
\* over: it is not counted as an error, only failed deletions are, and the
\* sweep goes on through all entries.
C31_AbsentFileIsSuccess ==
    last.op = "rollback" =>
        /\ \A i \in DOMAIN visited :
               AbsentAtVisit(i) => visited[i].outcome = "absent"
        /\ rollbackErrors =
               Cardinality({i \in DOMAIN visited :
                               ~AbsentAtVisit(i) /\ visited[i].outcome = "failed"})
        /\ Len(visited) = Len(last.before.createdFiles)
                              + Len(last.before.createdDirs)

\* a rollback over a ledger that lists a file twice: the newer entry was
\* deleted, the older one found absent, no error counted and the sweep went
\* on to delete a directory
C31_Witness ==
    /\ last.op = "rollback"
    /\ rollbackErrors = 0
    /\ \E i, j, k \in DOMAIN visited :
         /\ i < j /\ j < k
         /\ visited[i].kind = "file" /\ visited[i].outcome = "deleted"
         /\ visited[j].kind = "file" /\ visited[j].outcome = "absent"
         /\ visited[j].path = visited[i].path
         /\ visited[k].outcome = "deleted"

\* C32: a rollback leaves createdFiles and createdDirs, as
\* getCreatedStructure returns them, in the order they had before it.
C32_RollbackKeepsLedgerOrder ==
    last.op = "rollback" =>
        /\ st.createdFiles = last.before.createdFiles
        /\ st.createdDirs = last.before.createdDirs

\* C33: the promise of an install call, once settled, keeps its outcome
\* until the next call; packages are appended to installedPackages only in
\* the step that resolves the call, and never after the call was rejected.
C33_SettlesOnceEffectsAgree ==
    [][/\ promise.state \in {"resolved", "rejected"} =>
              \/ promise' = promise
              \/ promise'.state = "pending" /\ spawned' # spawned
       /\ installedPackages' # installedPackages =>
              promise.state = "pending" /\ promise'.state = "resolved"
       /\ promise.state = "rejected" => installedPackages' = installedPackages
      ]_vars

\* C34: every install call eventually settles whatever the subprocess does,
\* and generate() does not stay in InstallingDependencies: it eventually
\* returns or throws.
C34_InstallEventuallySettles ==
    /\ (promise.state = "pending") ~> (promise.state \in {"resolved", "rejected"})
    /\ (pc = "InstallingDependencies") ~> (result.state \in {"returned", "threw"})

\* generate() threw after the timer fired on a subprocess that never exited
C34_Witness ==
    /\ timeout = "fired"
    /\ child = "running"
    /\ promise.state = "rejected"
    /\ promise.err = timeoutError
    /\ result.state = "threw"

\* C35: whenever createDirectory(path) returns successfully, a directory
\* exists at the sanitized path, also when a regular file was there before.
C35_SuccessMeansDirectory ==
    (last.op = "createDirectory" /\ last.ok) => last.out \in st.dirs

\* C36: run() calls generate() at most once, and at the moment of the call
\* nothing exists at <cwd>/<config.projectName>.
C36_CleanTargetOnce ==
    /\ run.generateCalls <= 1
    /\ run.generateCalls = 1 => ~run.existedAtCall

====
